---- MODULE Spec2Model ----
(***************************************************************************)
(* The credential store (AuthService), the request pipeline (ApiService)   *)
(* and the response cache of the rental-catalog frontend.                  *)
(*                                                                         *)
(* Every asynchronous function is cut at its network awaits: one action    *)
(* runs the code from one await to the next, as the event loop does.       *)
(* Strings that the code inspects (endpoints, urls) are sequences of       *)
(* tokens; a token is a maximal piece that no inspected word straddles.    *)
(***************************************************************************)
EXTENDS Integers, Sequences, FiniteSets, TLC

VARIABLES accessToken, refreshToken, localStorage, issued, req, cli, cache,
          loggedOut,   \* logout() has run and login has not been called since
          entry,       \* the value and freshness of each cache entry
          inflight,    \* the fetches outstanding for each cache key
          fetched,     \* the value of the last successful fetch of each key
          hook,        \* the cached reads of the pages
          user,        \* AuthProvider: the user of the auth context
          isLoading,   \* AuthProvider: the context is loading
          demo,        \* the demo_auth and demo_user entries of storage
          auth,        \* AuthProvider: where its effect and its login are
          route,       \* the path the router shows
          screen,      \* what is rendered at that path
          page         \* MemorabiliaList: its modal, its alerts, its save handler

storeVars == <<accessToken, refreshToken, localStorage>>
hookVars == <<entry, inflight, fetched, hook>>
uiVars == <<user, isLoading, demo, auth, route, screen, page>>
vars == <<accessToken, refreshToken, localStorage, issued, req, cli, cache,
          loggedOut, entry, inflight, fetched, hook,
          user, isLoading, demo, auth, route, screen, page>>

(***************************************************************************)
(* Bounds of the model.                                                    *)
(***************************************************************************)
\* Token pairs the server issues (login and refresh successes) in one run.
MaxIssue == 2
\* Distinct values a cached read's fetch can bring.
MaxValue == 2

\* The callers of the pipeline: one call each at a time.
Procs == {"page"}

(***************************************************************************)
(* Values.                                                                 *)
(***************************************************************************)
\* A token that is not held (null in memory, a missing key in storage).
NULL == 0
\* Token 1 is the one found in storage at start, when there is one; the
\* server's n-th pair is made of the tokens n + 1.
Tokens == 1..(MaxIssue + 1)

NoErr == "none"
ErrLoginFailed == "Login failed"
ErrNoRefreshToken == "No refresh token available"
ErrRefreshFailed == "Token refresh failed"
ErrSessionExpired == "Session expired. Please login again."
\* The message of the TypeError a rejected fetch carries.
ErrNetwork == "Failed to fetch"
\* The message of the SyntaxError response.json() throws on a bad body.
ErrParse == "Unexpected token in JSON"
\* The 'detail' field of a server's error body.
ServerDetail == "server detail"

(***************************************************************************)
(* Headers: a record with one field per header name, Absent when the       *)
(* header is not in the object.                                            *)
(***************************************************************************)
Absent == [scheme |-> "absent", token |-> NULL]
\* The empty string ''.
EmptyString == [scheme |-> "", token |-> NULL]
Bearer(t) == [scheme |-> "Bearer", token |-> t]
NoHeaders == [ContentType |-> Absent, Authorization |-> Absent]
JsonType == [scheme |-> "application/json", token |-> NULL]

\* {...a, ...b}: the entries of b override those of a.
Merge(a, b) ==
  [k \in {"ContentType", "Authorization"} |->
     IF b[k] # Absent THEN b[k] ELSE a[k]]

(***************************************************************************)
(* AuthService: the credential store.                                      *)
(***************************************************************************)
Store(a, r, ls) == [accessToken |-> a, refreshToken |-> r, localStorage |-> ls]

CurrentStore == Store(accessToken, refreshToken, localStorage)

loadTokensFromStorage(ls) == Store(ls.access_token, ls.refresh_token, ls)

saveTokensMemoryOnly(tokens, ls) ==
  Store(tokens.access_token, tokens.refresh_token, ls)

saveTokensToStorage(tokens, ls) ==
  Store(tokens.access_token, tokens.refresh_token,
        [ls EXCEPT !.access_token = tokens.access_token,
                   !.refresh_token = tokens.refresh_token])

clearTokensMemoryOnly(ls) == Store(NULL, NULL, ls)

clearTokensFromStorage(ls) ==
  Store(NULL, NULL, [ls EXCEPT !.access_token = NULL, !.refresh_token = NULL])

\* A logout that clears only a store that holds a refresh token.
logoutIfRefreshable(ls) ==
  IF refreshToken # NULL THEN clearTokensFromStorage(ls) ELSE CurrentStore

logout(ls) == clearTokensFromStorage(ls)

isAuthenticated(a) == a # NULL

\* Headers that carry an Authorization entry whatever is held.
getAuthHeadersAlwaysBearer(a) ==
  [ContentType |-> JsonType, Authorization |-> Bearer(a)]

getAuthHeaders(a) ==
  [ContentType |-> JsonType,
   Authorization |-> IF a # NULL THEN Bearer(a) ELSE Absent]

\* The pair the server hands out next.
TokenResponse(n) ==
  [access_token |-> n + 1, refresh_token |-> n + 1, token_type |-> "bearer"]

\* The pair made of the tokens a and r.
Pair(a, r) == [access_token |-> a, refresh_token |-> r, token_type |-> "bearer"]
NoPair == [access_token |-> NULL, refresh_token |-> NULL, token_type |-> "none"]

(***************************************************************************)
(* What the network can answer.  kind "net" is a rejected fetch; body is   *)
(* "json" (a JSON body without a detail field), "detail" (a JSON body with *)
(* one), "bad" (not JSON) or "none" (no body).                             *)
(***************************************************************************)
NetError == [kind |-> "net", status |-> 0, body |-> "none"]
Http(s, b) == [kind |-> "http", status |-> s, body |-> b]

\* No answer yet.
NoResponse == [kind |-> "none", status |-> 0, body |-> "none"]

Responses ==
  {NetError, Http(200, "json"), Http(200, "bad"), Http(204, "none")}
    \cup {Http(s, b) : s \in {401, 500}, b \in {"json", "detail", "bad"}}

AuthResponses ==
  {NetError, Http(200, "json"), Http(200, "bad")}
    \cup {Http(401, b) : b \in {"json", "detail", "bad"}}

\* What /v1/auth/refresh can answer: also, with body "same", the pair the
\* client holds already.
RefreshResponses == AuthResponses \cup {Http(200, "same")}

\* The pair in the body of a successful answer of the server, which has
\* issued n - 1 pairs so far, to a client holding a and r.
ServerPair(resp, n, a, r) ==
  IF resp.body = "same" THEN Pair(a, r) ELSE TokenResponse(n)

\* The answer carries a pair the server has newly issued.
Issues(resp) == resp.kind = "http" /\ resp.status = 200 /\ resp.body = "json"

\* response.ok
Ok(resp) == resp.kind = "http" /\ resp.status >= 200 /\ resp.status <= 299

\* `HTTP error! status: ${response.status}`
HttpErrorMessage(status) ==
  CASE status = 401 -> "HTTP error! status: 401"
    [] status = 500 -> "HTTP error! status: 500"
    [] OTHER -> "HTTP error! status: other"

(***************************************************************************)
(* refreshAccessToken, cut at its fetch.                                   *)
(***************************************************************************)
\* The guard before the try block: TRUE when the call throws at once.
refreshThrowsAtOnceNever(rt) == FALSE

refreshThrowsAtOnce(rt) == rt = NULL

\* A refresh that returns the pair it was given without storing it.
refreshAccessTokenEndNoSave(resp, tokens, ls) ==
  [store |-> CurrentStore, error |-> NoErr]

\* From the answer of /v1/auth/refresh, whose body when it is one carries
\* the pair tokens, to the end of the function: the store it leaves and the
\* error it throws (NoErr when it returns the pair).
refreshAccessTokenEnd(resp, tokens, ls) ==
  IF resp.kind = "net"
    THEN [store |-> clearTokensFromStorage(ls), error |-> ErrNetwork]
  ELSE IF ~Ok(resp)
    THEN [store |-> clearTokensFromStorage(ls),
          error |-> CASE resp.body = "bad" -> ErrParse
                      [] resp.body = "detail" -> ServerDetail
                      [] OTHER -> ErrRefreshFailed]
  ELSE IF resp.body = "bad"
    THEN [store |-> clearTokensFromStorage(ls), error |-> ErrParse]
  ELSE [store |-> saveTokensToStorage(tokens, ls), error |-> NoErr]

(***************************************************************************)
(* Endpoints.  'merchandises' is the tokens "merchandise", "s": the word   *)
(* the catch branch looks for is a proper part of it.                      *)
(***************************************************************************)
\* String.prototype.includes for a word that is a token.
includes(s, word) == \E i \in 1..Len(s) : s[i] = word

\* The urls deleteFile is called with.
Urls ==
  {<<"https", ":", "/", "/", "cdn", "/", "files", "/", "a.png">>,
   <<"https", ":", "/", "/", "cdn", "/", "products", "/", "a.png">>}

\* URLSearchParams percent-encodes ':' and '/', and keeps letters, digits
\* and '.'.
encodeToken(t) ==
  CASE t = ":" -> "%3A"
    [] t = "/" -> "%2F"
    [] OTHER -> t

encode(s) == [i \in 1..Len(s) |-> encodeToken(s[i])]

NoUrl == <<>>

ProductOps ==
  {"getProducts", "searchProducts", "getProduct", "createProduct",
   "updateProduct", "deleteProduct"}
MemorabiliaOps ==
  {"getMemorabilia", "getMemorabiliaItem", "createMemorabilia",
   "updateMemorabilia", "deleteMemorabilia"}
MerchandiseOps ==
  {"getMerchandise", "getMerchandiseItem", "createMerchandise",
   "updateMerchandise", "deleteMerchandise"}
UploadOps == {"uploadFile", "deleteFile"}
Ops == ProductOps \cup MemorabiliaOps \cup MerchandiseOps \cup UploadOps

ListOps == {"getProducts", "getMemorabilia", "getMerchandise"}
DetailOps == {"getProduct", "getMemorabiliaItem", "getMerchandiseItem"}
CreateOps == {"createProduct", "createMemorabilia", "createMerchandise"}
UpdateOps == {"updateProduct", "updateMemorabilia", "updateMerchandise"}
DeleteOps == {"deleteProduct", "deleteMemorabilia", "deleteMerchandise"}
MutationOps == CreateOps \cup UpdateOps \cup DeleteOps

Family(op) ==
  CASE op \in ProductOps -> "products"
    [] op \in MemorabiliaOps -> "memorabilia"
    [] op \in MerchandiseOps -> "merchandise"
    [] OTHER -> "uploads"

FamilyPath(op) ==
  CASE op \in ProductOps -> <<"/v1/", "products">>
    [] op \in MemorabiliaOps -> <<"/v1/", "memorabilia">>
    [] op \in MerchandiseOps -> <<"/v1/", "merchandise", "s">>
    [] OTHER -> <<"/v1/", "uploads">>

\* The endpoint each operation hands to request.
Endpoint(op, url) ==
  CASE op \in ListOps -> FamilyPath(op) \o <<"/?", "limit=100">>
    [] op = "searchProducts" -> FamilyPath(op) \o <<"/search?", "q=car">>
    [] op \in DetailOps \cup UpdateOps \cup DeleteOps ->
         FamilyPath(op) \o <<"/", "id1">>
    [] op \in CreateOps -> FamilyPath(op) \o <<"/">>
    [] op = "uploadFile" -> FamilyPath(op) \o <<"/">>
    [] op = "deleteFile" -> FamilyPath(op) \o <<"/?", "url", "=">> \o encode(url)

\* searchProducts' fallback endpoint.
FallbackEndpoint == <<"/v1/", "products", "/?", "q=car">>

\* options.headers of each operation; uploadFile reads the store when it is
\* called.
OptionsHeaders(op, a) ==
  IF op = "uploadFile"
    THEN [ContentType |-> Absent,
          Authorization |->
            IF getAuthHeaders(a).Authorization # Absent
              THEN getAuthHeaders(a).Authorization ELSE EmptyString]
    ELSE NoHeaders

\* The headers of a dispatch: {...authService.getAuthHeaders(), ...options.headers}.
DispatchHeaders(a, optHeaders) == Merge(getAuthHeaders(a), optHeaders)

(***************************************************************************)
(* Values a call resolves with.                                            *)
(***************************************************************************)
Value(type, error) ==
  [type |-> type, rows |-> <<>>, total |-> 0, offset |-> 0, error |-> error]
\* The parsed JSON body of a 2xx answer.
ParsedBody == Value("body", NoErr)
\* {} as T, for 204.
EmptyValue == Value("empty", NoErr)
\* createProduct's mock product.
MockProduct == Value("mock", NoErr)
\* { rows: [], total: 0, offset: 0, error: message }
ListEnvelope(message) == Value("list", message)
NoValue == Value("none", NoErr)

Resolved(v) == [kind |-> "resolved", value |-> v, error |-> NoErr]
Rejected(e) == [kind |-> "rejected", value |-> NoValue, error |-> e]
Pending == [kind |-> "none", value |-> NoValue, error |-> NoErr]

(***************************************************************************)
(* ApiService.request.                                                     *)
(***************************************************************************)
\* The condition of the refresh branch.
needsRefreshIgnoringToken(resp, a) == resp.kind = "http" /\ resp.status = 401

needsRefresh(resp, a) ==
  resp.kind = "http" /\ resp.status = 401 /\ isAuthenticated(a)

\* The code after the refresh branch, for the final response: what the try
\* block returns (error = NoErr) or throws.
handleResponseParsing204(resp) ==
  IF resp.kind = "net" THEN [value |-> NoValue, error |-> ErrNetwork]
  ELSE IF ~Ok(resp)
    THEN [value |-> NoValue,
          error |-> IF resp.body = "detail" THEN ServerDetail
                    ELSE HttpErrorMessage(resp.status)]
  ELSE IF resp.body \in {"bad", "none"} THEN [value |-> NoValue, error |-> ErrParse]
  ELSE [value |-> ParsedBody, error |-> NoErr]

handleResponse(resp) ==
  IF resp.kind = "net" THEN [value |-> NoValue, error |-> ErrNetwork]
  ELSE IF ~Ok(resp)
    THEN [value |-> NoValue,
          error |-> IF resp.body = "detail" THEN ServerDetail
                    ELSE HttpErrorMessage(resp.status)]
  ELSE IF resp.status = 204 THEN [value |-> EmptyValue, error |-> NoErr]
  ELSE IF resp.body = "bad" THEN [value |-> NoValue, error |-> ErrParse]
  ELSE [value |-> ParsedBody, error |-> NoErr]

\* The test of the catch branch.
isListEndpointNoMerchandise(endpoint) ==
  includes(endpoint, "products") \/ includes(endpoint, "memorabilia")

isListEndpoint(endpoint) ==
  \/ includes(endpoint, "products")
  \/ includes(endpoint, "memorabilia")
  \/ includes(endpoint, "merchandise")

\* The catch branch: what request settles with when the try block threw.
catchBranch(endpoint, error) ==
  IF isListEndpoint(endpoint)
    THEN Resolved(ListEnvelope(error))
    ELSE Rejected(error)

\* What request settles with, given what its try block returned or threw.
settle(endpoint, r) ==
  IF r.error = NoErr THEN Resolved(r.value) ELSE catchBranch(endpoint, r.error)

(***************************************************************************)
(* The response cache (./cache and the useApi hook): the set of the keys   *)
(* that hold an entry.                                                     *)
(***************************************************************************)
Key(family, name) == [family |-> family, name |-> name]

CacheKeys ==
  {Key("products", "products:p0"), Key("products", "products:p1"),
   Key("memorabilia", "memorabilia-list-")}

\* What entry holds for a key without an entry; a value of 0 is no value.
NoEntry == [value |-> NULL, fresh |-> FALSE]

\* What inflight holds for a key: the network calls outstanding for it, and
\* whether a stale read started them in the background.
NoFetch == [calls |-> 0, background |-> FALSE]

\* What a fetch can bring.
Values == 1..MaxValue

\* An entry younger than its TTL.
isFreshNever(e) == FALSE

isFresh(e) == e.value # NULL /\ e.fresh

\* The staleWhileRevalidate option of the reads of key k.
staleWhileRevalidate(k) == k.family = "memorabilia"

\* A read that needs the network starts a call of its own.
startsFetchAlways(f) == TRUE

startsFetch(f) == f.calls = 0

\* The entry of a key once a fetch for it has brought v.
writeEntry(v) == [value |-> v, fresh |-> TRUE]

\* The entry e of a key once a fetch for it has failed.
afterFailureDropped(e) == NoEntry

afterFailure(e) == e

\* The pages' cached reads (useApi with a cacheKey).
Hooks == {"list", "picker"}

IdleHook ==
  [pc |-> "idle", key |-> Key("none", "none"),
   served |-> "none",       \* "fresh", "stale" or "fetch": what answered the read
   net |-> 0,               \* network calls this read started
   outcome |-> "none",      \* "resolved" or "rejected"
   result |-> NULL]         \* the value the read resolved with

\* invalidateProductCache, invalidateMemorabiliaCache, invalidateMerchandiseCache
invalidateCache(c, family) == {k \in c : k.family # family}

\* The family whose cache an operation invalidates once its request has
\* resolved ("none": it invalidates nothing).
invalidates(op) ==
  IF op \in (UpdateOps \cup DeleteOps \cup {"createMemorabilia", "createMerchandise"})
    THEN Family(op) ELSE "none"

(***************************************************************************)
(* One pipeline call.                                                      *)
(***************************************************************************)
IdleReq ==
  [pc |-> "idle", op |-> "none", endpoint |-> <<>>, optHeaders |-> NoHeaders,
   call |-> 1,              \* which call of request this is (searchProducts: 1, 2)
   sent |-> <<>>,           \* the headers of each dispatch of this call
   got |-> <<>>,            \* the status of each answer (0: the fetch rejected)
   held1 |-> FALSE,         \* a token was held when the first answer came
   nRefresh |-> 0,          \* invocations of refreshAccessToken by this call
   refreshNet |-> 0,        \* fetches of /v1/auth/refresh by this call
   refreshWith |-> NULL,    \* the refresh token in the body of that fetch
   refreshed |-> NULL,      \* the access token the refresh returned
   refreshErr |-> NoErr,    \* what refreshAccessToken threw
   err |-> NoErr,           \* what the try block of request threw
   outcome |-> Pending]

IdleCli ==
  [pc |-> "idle", op |-> "none",
   refreshNet |-> 0,        \* fetches of /v1/auth/refresh by this call
   resp |-> NoResponse,     \* the answer its fetch got
   prev |-> "none",         \* "login": the caller's last call was a login that resolved
   seq |-> FALSE,           \* this refresh follows a login that resolved
   before |-> NoPair,       \* the pair held when this refresh was called
   tokens |-> NoPair,       \* the pair this refresh returned
   outcome |-> Pending]

\* The first dispatch of a call of request.
dispatch(r, op, endpoint, optHeaders, a, call) ==
  [IdleReq EXCEPT !.pc = "fetch1", !.op = op, !.endpoint = endpoint,
                  !.optHeaders = optHeaders, !.call = call,
                  !.sent = <<DispatchHeaders(a, optHeaders)>>]

\* request has run to its end with t, what its try block returned or threw;
\* then the rest of the operation that called it.  a is the access token
\* held now.  Gives the call's record and the family to invalidate.
finish(r, t, a) ==
  LET o == settle(r.endpoint, t)
      done == [r EXCEPT !.pc = "done", !.err = t.error, !.outcome = o]
  IN  IF r.op = "searchProducts" /\ r.call = 1 /\ o.kind = "rejected"
        THEN [req |-> dispatch(r, r.op, FallbackEndpoint, NoHeaders, a, 2),
              invalidate |-> "none"]
        ELSE [req |-> done,
              invalidate |-> IF o.kind = "resolved" THEN invalidates(r.op)
                             ELSE "none"]

(***************************************************************************)
(* The auth context (AuthProvider) and the router's protected routes.      *)
(***************************************************************************)
\* user === null
NoUser == [id |-> "null", email |-> "null", role |-> "null"]
\* The user checkAuth sets when the store holds a token.
StoredUser == [id |-> "1", email |-> "sega@dealertower.com", role |-> "admin"]
\* The user login sets, with the email typed.
LoginUser == [id |-> "1", email |-> "typed", role |-> "admin"]
\* JSON.parse(demoUser)
DemoUser == [id |-> "demo", email |-> "demo", role |-> "admin"]

\* The demo entries of storage: none, demo_auth = 'true' with a demo_user
\* that parses, or with one that does not.
Demos == {"none", "user", "bad"}

\* value.isAuthenticated
contextIsAuthenticated(u) == u # NoUser

\* The routes App wraps in ProtectedRoute, and the login route.
ProtectedPaths ==
  {"/admin/dashboard", "/admin/products", "/admin/product-list",
   "/admin/memorabilia", "/admin/merchandise", "/admin/profile", "/admin/users"}
LoginPath == "/admin"
\* The storefront's home page, one of the routes without a guard.
HomePath == "/"
Paths == ProtectedPaths \cup {LoginPath, HomePath}

\* A guard that does not wait for the context to load.
ProtectedRouteNoLoading(authenticated, loading) ==
  IF ~authenticated THEN "redirect" ELSE "children"

\* What ProtectedRoute returns.
ProtectedRoute(authenticated, loading) ==
  IF loading THEN "loading"
  ELSE IF ~authenticated THEN "redirect"
  ELSE "children"

\* What the router shows for path r under the context (u, loading): the
\* path it ends at and the screen there.  <Navigate to="/admin" replace />
\* takes the router to the login page.
Render(r, u, loading) ==
  IF r \in ProtectedPaths
    THEN LET out == ProtectedRoute(contextIsAuthenticated(u), loading)
         IN  IF out = "redirect" THEN [route |-> LoginPath, screen |-> "login"]
             ELSE [route |-> r, screen |-> out]
    ELSE [route |-> r, screen |-> IF r = LoginPath THEN "login" ELSE "public"]

\* MemorabiliaList before any click.
IdlePage ==
  [pc |-> "idle",           \* "saving": handleSaveItem is at its await
   modal |-> "none",        \* "add" or "edit": the modal that is open
   selected |-> FALSE,      \* selectedItem is not null
   alert |-> "none",        \* the last alert shown
   threw |-> FALSE,         \* handleSaveItem threw outside its try
   href |-> "none"]         \* what window.location.href was set to

\* The first render of App at path r, before AuthProvider's effect has run,
\* with the demo entries d in storage.
Mounting(d, r) ==
  /\ user = NoUser
  /\ isLoading = TRUE
  /\ demo = d
  /\ auth = "mounting"
  /\ route = Render(r, NoUser, TRUE).route
  /\ screen = Render(r, NoUser, TRUE).screen
  /\ page = IdlePage

\* The state once the module's authService has been constructed over what
\* storage holds, with the callers P.
InitOver(P) ==
  /\ localStorage \in [access_token : {NULL, 1}, refresh_token : {NULL, 1}]
  /\ accessToken = loadTokensFromStorage(localStorage).accessToken
  /\ refreshToken = loadTokensFromStorage(localStorage).refreshToken
  /\ issued = 0
  /\ req = [p \in P |-> IdleReq]
  /\ cli = IdleCli
  /\ cache = {}
  /\ loggedOut = FALSE
  /\ entry = [k \in CacheKeys |-> NoEntry]
  /\ inflight = [k \in CacheKeys |-> NoFetch]
  /\ fetched = [k \in CacheKeys |-> NULL]
  /\ hook = [h \in Hooks |-> IdleHook]

Init == InitOver(Procs) /\ Mounting("none", LoginPath)

\* App starts at any path, with any demo entries in storage.
UiInit ==
  /\ InitOver(Procs)
  /\ \E d \in Demos, r \in Paths : Mounting(d, r)

SetStore(s) ==
  /\ accessToken' = s.accessToken
  /\ refreshToken' = s.refreshToken
  /\ localStorage' = s.localStorage

\* An operation other than createProduct is called: the code up to the
\* first fetch of request.
Call(p, op, url) ==
  /\ req[p].pc = "idle"
  /\ op \in Ops \ {"createProduct"}
  /\ url \in (IF op = "deleteFile" THEN Urls ELSE {NoUrl})
  /\ req' = [req EXCEPT ![p] =
               dispatch(req[p], op, Endpoint(op, url),
                        OptionsHeaders(op, accessToken), accessToken, 1)]
  /\ UNCHANGED <<storeVars, issued, cli, cache>>
  /\ UNCHANGED <<loggedOut, hookVars, uiVars>>

\* createProduct is called: it waits for its timer and issues no request.
CallCreateProduct(p) ==
  /\ req[p].pc = "idle"
  /\ req' = [req EXCEPT ![p] = [IdleReq EXCEPT !.pc = "mock", !.op = "createProduct"]]
  /\ UNCHANGED <<storeVars, issued, cli, cache>>
  /\ UNCHANGED <<loggedOut, hookVars, uiVars>>

\* createProduct's timer fires: it returns the mock product.
MockDone(p) ==
  /\ req[p].pc = "mock"
  /\ req' = [req EXCEPT ![p] = [@ EXCEPT !.pc = "done", !.outcome = Resolved(MockProduct)]]
  /\ UNCHANGED <<storeVars, issued, cli, cache>>
  /\ UNCHANGED <<loggedOut, hookVars, uiVars>>

\* The first fetch of request settles.
Respond1(p, resp) ==
  /\ req[p].pc = "fetch1"
  /\ resp \in Responses
  /\ LET r == [req[p] EXCEPT !.got = <<resp.status>>,
                             !.held1 = isAuthenticated(accessToken)]
     IN  IF needsRefresh(resp, accessToken)
           THEN IF refreshThrowsAtOnce(refreshToken)
                  THEN \* refreshAccessToken throws before its fetch; the
                       \* catch logs out and throws the session error
                       LET f == finish([r EXCEPT !.nRefresh = 1,
                                                 !.refreshErr = ErrNoRefreshToken],
                                       [value |-> NoValue, error |-> ErrSessionExpired],
                                       NULL)
                       IN  /\ SetStore(logout(localStorage))
                           /\ req' = [req EXCEPT ![p] = f.req]
                           /\ cache' = invalidateCache(cache, f.invalidate)
                  ELSE /\ req' = [req EXCEPT ![p] =
                                    [r EXCEPT !.pc = "refresh", !.nRefresh = 1,
                                              !.refreshNet = 1,
                                              !.refreshWith = refreshToken]]
                       /\ UNCHANGED <<storeVars, cache>>
           ELSE LET f == finish(r, handleResponse(resp), accessToken)
                IN  /\ req' = [req EXCEPT ![p] = f.req]
                    /\ cache' = invalidateCache(cache, f.invalidate)
                    /\ UNCHANGED storeVars
  /\ UNCHANGED <<issued, cli>>
  /\ UNCHANGED <<loggedOut, hookVars, uiVars>>

\* The fetch of /v1/auth/refresh that request's refresh issued settles.
RefreshRespond(p, resp) ==
  /\ req[p].pc = "refresh"
  /\ resp \in RefreshResponses
  /\ resp.body = "same" => (accessToken # NULL /\ refreshToken # NULL)
  /\ LET e == refreshAccessTokenEnd(
                resp, ServerPair(resp, issued + 1, accessToken, refreshToken),
                localStorage)
         r == req[p]
     IN  IF e.error = NoErr
           THEN /\ Issues(resp) => issued < MaxIssue
                /\ issued' = IF Issues(resp) THEN issued + 1 ELSE issued
                /\ SetStore(e.store)
                /\ req' = [req EXCEPT ![p] =
                             [r EXCEPT !.pc = "fetch2",
                                       !.refreshed = e.store.accessToken,
                                       !.sent = Append(@, DispatchHeaders(e.store.accessToken,
                                                                          r.optHeaders))]]
                /\ UNCHANGED cache
           ELSE LET f == finish([r EXCEPT !.refreshErr = e.error],
                                [value |-> NoValue, error |-> ErrSessionExpired],
                                NULL)
                IN  /\ SetStore(logout(e.store.localStorage))
                    /\ req' = [req EXCEPT ![p] = f.req]
                    /\ cache' = invalidateCache(cache, f.invalidate)
                    /\ UNCHANGED issued
  /\ UNCHANGED cli
  /\ UNCHANGED <<loggedOut, hookVars, uiVars>>

\* The re-dispatched fetch settles.
\* A second dispatch whose failure logs the caller out.
Respond2LoggingOut(p, resp) ==
  /\ req[p].pc = "fetch2"
  /\ resp \in Responses
  /\ LET t == handleResponse(resp)
         f == finish([req[p] EXCEPT !.got = Append(@, resp.status)], t, accessToken)
     IN  /\ req' = [req EXCEPT ![p] = f.req]
         /\ cache' = invalidateCache(cache, f.invalidate)
         /\ SetStore(IF t.error = NoErr THEN CurrentStore ELSE logout(localStorage))
  /\ UNCHANGED <<issued, cli>>
  /\ UNCHANGED <<loggedOut, hookVars, uiVars>>

Respond2(p, resp) ==
  /\ req[p].pc = "fetch2"
  /\ resp \in Responses
  /\ LET f == finish([req[p] EXCEPT !.got = Append(@, resp.status)],
                     handleResponse(resp), accessToken)
     IN  /\ req' = [req EXCEPT ![p] = f.req]
         /\ cache' = invalidateCache(cache, f.invalidate)
  /\ UNCHANGED <<storeVars, issued, cli>>
  /\ UNCHANGED <<loggedOut, hookVars, uiVars>>

\* The caller takes the result.
Return(p) ==
  /\ req[p].pc = "done"
  /\ req' = [req EXCEPT ![p] = IdleReq]
  /\ UNCHANGED <<storeVars, issued, cli, cache>>
  /\ UNCHANGED <<loggedOut, hookVars, uiVars>>

\* A caching caller takes the result of a list read and writes it under
\* its key.
ReturnCached(p, k) ==
  /\ req[p].pc = "done"
  /\ req[p].op \in ListOps
  /\ req[p].outcome.kind = "resolved"
  /\ k \in CacheKeys
  /\ k.family = Family(req[p].op)
  /\ cache' = cache \cup {k}
  /\ req' = [req EXCEPT ![p] = IdleReq]
  /\ UNCHANGED <<storeVars, issued, cli>>
  /\ UNCHANGED <<loggedOut, hookVars, uiVars>>

(***************************************************************************)
(* Direct callers of the credential store.                                 *)
(***************************************************************************)
\* login, from the answer of /v1/auth/login to its end: the store it leaves
\* and the error it throws (NoErr when it returns the pair).
loginEnd(resp, n, cur) ==
  IF resp.kind = "net" THEN [store |-> cur, error |-> ErrNetwork]
  ELSE IF resp.body = "bad" THEN [store |-> cur, error |-> ErrParse]
  ELSE IF ~Ok(resp)
    THEN [store |-> cur,
          error |-> IF resp.body = "detail" THEN ServerDetail ELSE ErrLoginFailed]
  ELSE [store |-> saveTokensToStorage(TokenResponse(n), cur.localStorage),
        error |-> NoErr]

\* authService.login is called: the code up to its fetch.
Login ==
  /\ cli.pc = "idle"
  /\ cli' = [IdleCli EXCEPT !.pc = "login", !.op = "login"]
  /\ loggedOut' = FALSE
  /\ UNCHANGED <<storeVars, issued, req, cache, hookVars, uiVars>>

\* The fetch of /v1/auth/login settles.
LoginRespond(resp) ==
  /\ cli.pc = "login"
  /\ resp \in AuthResponses
  /\ LET e == loginEnd(resp, issued + 1, CurrentStore)
     IN  /\ (e.error = NoErr) => issued < MaxIssue
         /\ issued' = IF e.error = NoErr THEN issued + 1 ELSE issued
         /\ SetStore(e.store)
         /\ cli' = [cli EXCEPT !.pc = "done", !.resp = resp,
                               !.outcome = IF e.error = NoErr
                                             THEN Resolved(ParsedBody)
                                             ELSE Rejected(e.error)]
  /\ UNCHANGED <<req, cache>>
  /\ UNCHANGED <<loggedOut, hookVars, uiVars>>

\* authService.refreshAccessToken is called directly: the code up to its
\* fetch, or to its end when it throws before the fetch.
Refresh ==
  /\ cli.pc = "idle"
  /\ cli' = IF refreshThrowsAtOnce(refreshToken)
              THEN [IdleCli EXCEPT !.pc = "done", !.op = "refresh",
                                   !.outcome = Rejected(ErrNoRefreshToken)]
              ELSE [IdleCli EXCEPT !.pc = "refresh", !.op = "refresh",
                                   !.refreshNet = 1,
                                   !.seq = (cli.prev = "login"),
                                   !.before = Pair(accessToken, refreshToken)]
  /\ UNCHANGED <<storeVars, issued, req, cache>>
  /\ UNCHANGED <<loggedOut, hookVars, uiVars>>

\* The fetch of /v1/auth/refresh of a direct refresh settles.
RefreshEnd(resp) ==
  /\ cli.pc = "refresh"
  /\ resp \in RefreshResponses
  /\ resp.body = "same" => (accessToken # NULL /\ refreshToken # NULL)
  /\ LET tokens == ServerPair(resp, issued + 1, accessToken, refreshToken)
         e == refreshAccessTokenEnd(resp, tokens, localStorage)
     IN  /\ (e.error = NoErr /\ Issues(resp)) => issued < MaxIssue
         /\ issued' = IF e.error = NoErr /\ Issues(resp) THEN issued + 1 ELSE issued
         /\ SetStore(e.store)
         /\ cli' = [cli EXCEPT !.pc = "done", !.resp = resp,
                               !.tokens = IF e.error = NoErr THEN tokens ELSE NoPair,
                               !.outcome = IF e.error = NoErr
                                             THEN Resolved(ParsedBody)
                                             ELSE Rejected(e.error)]
  /\ UNCHANGED <<req, cache>>
  /\ UNCHANGED <<loggedOut, hookVars, uiVars>>

\* The direct caller takes the result.
CliReturn ==
  /\ cli.pc = "done"
  /\ cli' = [IdleCli EXCEPT !.prev = IF cli.op = "login" /\ cli.outcome.kind = "resolved"
                                       THEN "login" ELSE "none"]
  /\ UNCHANGED <<storeVars, issued, req, cache>>
  /\ UNCHANGED <<loggedOut, hookVars, uiVars>>

\* authService.logout()
Logout ==
  /\ SetStore(logout(localStorage))
  /\ loggedOut' = TRUE
  /\ UNCHANGED <<issued, req, cli, cache, hookVars, uiVars>>

\* The page is loaded again: the module's authService is constructed over
\* what storage holds, and every call in flight is gone with the old page.
Reload ==
  /\ SetStore(loadTokensFromStorage(localStorage))
  /\ req' = [p \in DOMAIN req |-> IdleReq]
  /\ cli' = IdleCli
  /\ cache' = {}
  /\ UNCHANGED <<issued, loggedOut, hookVars, uiVars>>

\* The steps of the pipeline's callers.
PipelineNext ==
  \/ \E p \in DOMAIN req, op \in Ops, url \in Urls \cup {NoUrl} : Call(p, op, url)
  \/ \E p \in DOMAIN req : CallCreateProduct(p)
  \/ \E p \in DOMAIN req : MockDone(p)
  \/ \E p \in DOMAIN req, resp \in Responses : Respond1(p, resp)
  \/ \E p \in DOMAIN req, resp \in RefreshResponses : RefreshRespond(p, resp)
  \/ \E p \in DOMAIN req, resp \in Responses : Respond2(p, resp)
  \/ \E p \in DOMAIN req : Return(p)

\* The steps of the credential store's direct callers.
StoreNext ==
  \/ Login
  \/ \E resp \in AuthResponses : LoginRespond(resp)
  \/ Refresh
  \/ \E resp \in RefreshResponses : RefreshEnd(resp)
  \/ CliReturn
  \/ Logout
  \/ Reload

\* The steps of the caching callers.
CacheNext ==
  \E p \in DOMAIN req, k \in CacheKeys : ReturnCached(p, k)

(***************************************************************************)
(* Cached reads: useApi with a cacheKey, over the cache.                   *)
(***************************************************************************)
\* The read h asks for key k.
HookRead(h, k) ==
  /\ hook[h].pc = "idle"
  /\ LET e == entry[k]
         f == inflight[k]
         n == IF startsFetch(f) THEN 1 ELSE 0
         r == [IdleHook EXCEPT !.key = k]
     IN  IF isFresh(e)
           THEN /\ hook' = [hook EXCEPT ![h] =
                             [r EXCEPT !.pc = "done", !.served = "fresh",
                                       !.outcome = "resolved", !.result = e.value]]
                /\ UNCHANGED inflight
         ELSE IF e.value # NULL /\ staleWhileRevalidate(k)
           THEN /\ hook' = [hook EXCEPT ![h] =
                             [r EXCEPT !.pc = "done", !.served = "stale", !.net = n,
                                       !.outcome = "resolved", !.result = e.value]]
                /\ inflight' = [inflight EXCEPT ![k] =
                                 [calls |-> f.calls + n,
                                  background |-> IF n = 1 THEN TRUE ELSE f.background]]
         ELSE /\ hook' = [hook EXCEPT ![h] =
                           [r EXCEPT !.pc = "waiting", !.served = "fetch", !.net = n]]
              /\ inflight' = [inflight EXCEPT ![k] =
                               [calls |-> f.calls + n,
                                background |-> IF n = 1 THEN FALSE ELSE f.background]]
  /\ UNCHANGED <<entry, fetched>>
  /\ UNCHANGED <<storeVars, issued, req, cli, cache, loggedOut, uiVars>>

\* What inflight holds for a key once one of its calls has ended.
callEnded(f) ==
  IF f.calls = 1 THEN NoFetch ELSE [f EXCEPT !.calls = @ - 1]

\* A fetch for key k brings v: the entry is written and the reads waiting
\* for k resolve with v.
FetchOk(k, v) ==
  /\ inflight[k].calls >= 1
  /\ entry' = [entry EXCEPT ![k] = writeEntry(v)]
  /\ fetched' = [fetched EXCEPT ![k] = v]
  /\ inflight' = [inflight EXCEPT ![k] = callEnded(@)]
  /\ hook' = [h \in Hooks |->
               IF hook[h].pc = "waiting" /\ hook[h].key = k
                 THEN [hook[h] EXCEPT !.pc = "done", !.outcome = "resolved", !.result = v]
                 ELSE hook[h]]
  /\ UNCHANGED <<storeVars, issued, req, cli, cache, loggedOut, uiVars>>

\* A fetch for key k fails: the reads waiting for k reject.
FetchFail(k) ==
  /\ inflight[k].calls >= 1
  /\ entry' = [entry EXCEPT ![k] = afterFailure(@)]
  /\ inflight' = [inflight EXCEPT ![k] = callEnded(@)]
  /\ hook' = [h \in Hooks |->
               IF hook[h].pc = "waiting" /\ hook[h].key = k
                 THEN [hook[h] EXCEPT !.pc = "done", !.outcome = "rejected"]
                 ELSE hook[h]]
  /\ UNCHANGED fetched
  /\ UNCHANGED <<storeVars, issued, req, cli, cache, loggedOut, uiVars>>

\* The entry of key k gets older than its TTL.
Expire(k) ==
  /\ isFresh(entry[k])
  /\ entry' = [entry EXCEPT ![k].fresh = FALSE]
  /\ UNCHANGED <<inflight, fetched, hook>>
  /\ UNCHANGED <<storeVars, issued, req, cli, cache, loggedOut, uiVars>>

\* The page takes what its read gave.
HookReturn(h) ==
  /\ hook[h].pc = "done"
  /\ hook' = [hook EXCEPT ![h] = IdleHook]
  /\ UNCHANGED <<entry, inflight, fetched>>
  /\ UNCHANGED <<storeVars, issued, req, cli, cache, loggedOut, uiVars>>

SwrNext ==
  \/ \E h \in Hooks, k \in CacheKeys : HookRead(h, k)
  \/ \E k \in CacheKeys, v \in Values : FetchOk(k, v)
  \/ \E k \in CacheKeys : FetchFail(k)
  \/ \E k \in CacheKeys : Expire(k)
  \/ \E h \in Hooks : HookReturn(h)

\* The cached reads of two pages over the cache.
SwrSpec == Init /\ [][SwrNext]_vars

(***************************************************************************)
(* AuthProvider and the router.                                            *)
(***************************************************************************)
\* The context becomes (u, loading) and App renders again.
SetContext(u, loading) ==
  /\ user' = u
  /\ isLoading' = loading
  /\ route' = Render(route, u, loading).route
  /\ screen' = Render(route, u, loading).screen
  /\ UNCHANGED page

\* AuthProvider's effect: checkAuth, which has no await.
CheckAuth ==
  /\ auth = "mounting"
  /\ auth' = "ready"
  /\ IF demo = "user"
       THEN /\ SetContext(DemoUser, FALSE)
            /\ UNCHANGED <<storeVars, demo>>
     ELSE IF demo = "bad"
       THEN \* JSON.parse throws: the catch logs out and removes the entries
            /\ SetStore(logout(localStorage))
            /\ demo' = "none"
            /\ SetContext(NoUser, FALSE)
     ELSE /\ SetContext(IF isAuthenticated(accessToken) THEN StoredUser ELSE NoUser,
                        FALSE)
          /\ UNCHANGED <<storeVars, demo>>
  /\ UNCHANGED <<issued, req, cli, cache, loggedOut, hookVars>>

\* The context's login is called: the code up to authService.login's fetch.
ContextLogin ==
  /\ auth = "ready"
  /\ auth' = "login"
  /\ SetContext(user, TRUE)
  /\ UNCHANGED demo
  /\ UNCHANGED <<storeVars, issued, req, cli, cache, loggedOut, hookVars>>

\* The fetch of /v1/auth/login settles: the rest of the context's login.
ContextLoginRespond(resp) ==
  /\ auth = "login"
  /\ resp \in AuthResponses
  /\ LET e == loginEnd(resp, issued + 1, CurrentStore)
     IN  /\ (e.error = NoErr) => issued < MaxIssue
         /\ issued' = IF e.error = NoErr THEN issued + 1 ELSE issued
         /\ SetStore(e.store)
         /\ SetContext(IF e.error = NoErr THEN LoginUser ELSE user, FALSE)
  /\ auth' = "ready"
  /\ UNCHANGED demo
  /\ UNCHANGED <<req, cli, cache, loggedOut, hookVars>>

\* The context's logout.
ContextLogout ==
  /\ auth # "mounting"
  /\ SetStore(logout(localStorage))
  /\ demo' = "none"
  /\ SetContext(NoUser, isLoading)
  /\ UNCHANGED auth
  /\ UNCHANGED <<issued, req, cli, cache, loggedOut, hookVars>>

\* The router is taken to path r.
Goto(r) ==
  /\ r \in Paths
  /\ r # route
  /\ route' = Render(r, user, isLoading).route
  /\ screen' = Render(r, user, isLoading).screen
  /\ UNCHANGED <<user, isLoading, demo, auth, page>>
  /\ UNCHANGED <<storeVars, issued, req, cli, cache, loggedOut, hookVars>>

\* The calls of the memorabilia page.
PageOps == {"getMemorabilia", "updateMemorabilia"}

UiNext ==
  \/ CheckAuth
  \/ ContextLogin
  \/ \E resp \in AuthResponses : ContextLoginRespond(resp)
  \/ ContextLogout
  \/ \E r \in Paths : Goto(r)

\* The steps of the pipeline for the calls of the memorabilia page.
PagePipelineNext ==
  \/ \E p \in DOMAIN req, op \in PageOps : Call(p, op, NoUrl)
  \/ \E p \in DOMAIN req, resp \in Responses : Respond1(p, resp)
  \/ \E p \in DOMAIN req, resp \in RefreshResponses : RefreshRespond(p, resp)
  \/ \E p \in DOMAIN req, resp \in Responses : Respond2(p, resp)
  \/ \E p \in DOMAIN req : Return(p)

NextUi == UiNext \/ PagePipelineNext

\* The auth context, the router and the pipeline, with one caller.
UiSpec == UiInit /\ [][NextUi]_vars

(***************************************************************************)
(* MemorabiliaList: saving an item.                                        *)
(***************************************************************************)
MemorabiliaPath == "/admin/memorabilia"

\* useMutation's mutate: it settles as the function it wraps settles.
mutate(o) == o

\* error.message.includes('Authentication'): no message that the store or
\* the pipeline throws has the word, and the server's detail is taken not to.
includesAuthentication(e) ==
  e \notin {NoErr, ErrLoginFailed, ErrNoRefreshToken, ErrRefreshFailed,
            ErrSessionExpired, ErrNetwork, ErrParse, ServerDetail,
            HttpErrorMessage(401), HttpErrorMessage(500), HttpErrorMessage(204)}

\* handleSaveItem after its await settled with o: the alert it shows and
\* what it does to the modal.
afterSave(pg, o) ==
  IF o.kind = "resolved"
    THEN [IdlePage EXCEPT !.alert = IF pg.selected THEN "updated" ELSE "created"]
    ELSE IF includesAuthentication(o.error)
      THEN [pg EXCEPT !.pc = "idle", !.alert = "expired", !.href = "/admin/login"]
      ELSE [pg EXCEPT !.pc = "idle", !.alert = "failed"]

\* The page is shown.
PageShown == route = MemorabiliaPath /\ screen = "children"

\* 'Add' is clicked (kind "add"), or handleEdit runs (kind "edit").
OpenModal(kind) ==
  /\ PageShown
  /\ page.pc = "idle"
  /\ page.modal = "none"
  /\ page' = [IdlePage EXCEPT !.modal = kind, !.selected = (kind = "edit")]
  /\ UNCHANGED <<user, isLoading, demo, auth, route, screen>>
  /\ UNCHANGED <<storeVars, issued, req, cli, cache, loggedOut, hookVars>>

\* handleCancel
handleCancel ==
  /\ PageShown
  /\ page.pc = "idle"
  /\ page.modal # "none"
  /\ page' = IdlePage
  /\ UNCHANGED <<user, isLoading, demo, auth, route, screen>>
  /\ UNCHANGED <<storeVars, issued, req, cli, cache, loggedOut, hookVars>>

\* handleSaveItem up to its await.  It calls the hook useAuth() inside the
\* handler, outside a render: hookThrows is whether that call throws.
handleSaveItem(p, hookThrows) ==
  /\ PageShown
  /\ page.pc = "idle"
  /\ page.modal # "none"
  /\ req[p].pc = "idle"
  /\ IF hookThrows
       THEN /\ page' = [page EXCEPT !.threw = TRUE, !.alert = "none"]
            /\ UNCHANGED req
     ELSE IF ~contextIsAuthenticated(user)
       THEN /\ page' = [page EXCEPT !.alert = "login", !.threw = FALSE]
            /\ UNCHANGED req
     ELSE LET op == IF page.selected THEN "updateMemorabilia" ELSE "createMemorabilia"
          IN  /\ page' = [page EXCEPT !.pc = "saving", !.alert = "none", !.threw = FALSE]
              /\ req' = [req EXCEPT ![p] =
                           dispatch(req[p], op, Endpoint(op, NoUrl),
                                    OptionsHeaders(op, accessToken), accessToken, 1)]
  /\ UNCHANGED <<user, isLoading, demo, auth, route, screen>>
  /\ UNCHANGED <<storeVars, issued, cli, cache, loggedOut, hookVars>>

\* The await of handleSaveItem settles: the rest of the handler.
SaveDone(p) ==
  /\ page.pc = "saving"
  /\ req[p].pc = "done"
  /\ page' = afterSave(page, mutate(req[p].outcome))
  /\ req' = [req EXCEPT ![p] = IdleReq]
  /\ UNCHANGED <<user, isLoading, demo, auth, route, screen>>
  /\ UNCHANGED <<storeVars, issued, cli, cache, loggedOut, hookVars>>

SaveInit == InitOver(Procs) /\ Mounting("none", MemorabiliaPath)

SaveNext ==
  \/ CheckAuth
  \/ \E kind \in {"add", "edit"} : OpenModal(kind)
  \/ handleCancel
  \/ \E p \in DOMAIN req, hookThrows \in BOOLEAN : handleSaveItem(p, hookThrows)
  \/ \E p \in DOMAIN req, resp \in Responses : Respond1(p, resp)
  \/ \E p \in DOMAIN req, resp \in RefreshResponses : RefreshRespond(p, resp)
  \/ \E p \in DOMAIN req, resp \in Responses : Respond2(p, resp)
  \/ \E p \in DOMAIN req : SaveDone(p)

\* The memorabilia page and the pipeline.
SaveSpec == SaveInit /\ [][SaveNext]_vars

(***************************************************************************)
(* Two requests at once.                                                   *)
(***************************************************************************)
\* Two components of one page that call the pipeline.
Callers == {"list", "form"}

ConcInit == InitOver(Callers) /\ Mounting("none", LoginPath)

\* One request of each caller, against a server that answers a refresh it
\* accepts with a new pair.
ConcNext ==
  \/ \E p \in DOMAIN req, op \in PageOps : Call(p, op, NoUrl)
  \/ \E p \in DOMAIN req, resp \in Responses : Respond1(p, resp)
  \/ \E p \in DOMAIN req, resp \in AuthResponses : RefreshRespond(p, resp)
  \/ \E p \in DOMAIN req, resp \in Responses : Respond2(p, resp)

ConcSpec == ConcInit /\ [][ConcNext]_vars

\* The pipeline and the credential store, with one caller of each.
Next == PipelineNext \/ StoreNext

Spec == Init /\ [][Next]_vars

\* The pipeline and the cache, with one caller.
NextCache == PipelineNext \/ CacheNext

CacheSpec == Init /\ [][NextCache]_vars

(***************************************************************************)
(* Properties.                                                             *)
(***************************************************************************)
StoreEmpty ==
  /\ accessToken = NULL
  /\ refreshToken = NULL
  /\ localStorage.access_token = NULL
  /\ localStorage.refresh_token = NULL

\* The operations that hand a request to the pipeline and take a detail or
\* write a resource.
DetailAndWriteOps ==
  DetailOps \cup UpdateOps \cup DeleteOps \cup {"createMemorabilia", "createMerchandise"}

\* C1: in every call of request, refreshAccessToken is invoked once when the
\* first answer is a 401 that finds a token held and never otherwise, the
\* request is dispatched at most twice, and a 401 answer to the second
\* dispatch ends the call with no further refresh or dispatch.
C1_RefreshOnceDispatchTwice ==
  \A p \in DOMAIN req :
    LET r == req[p]
    IN  /\ Len(r.sent) <= 2
        /\ r.nRefresh <= 1
        /\ r.refreshNet <= r.nRefresh
        /\ Len(r.got) >= 1 =>
              r.nRefresh = (IF r.got[1] = 401 /\ r.held1 THEN 1 ELSE 0)
        /\ Len(r.got) = 0 => r.nRefresh = 0
        /\ Len(r.sent) = 2 => r.nRefresh = 1
        /\ Len(r.got) = 2 => r.pc = "done" /\ r.nRefresh = 1 /\ Len(r.sent) = 2

\* A call whose two dispatches were both answered 401.
C1_Witness ==
  \E p \in DOMAIN req :
    /\ req[p].pc = "done"
    /\ req[p].got = <<401, 401>>
    /\ req[p].nRefresh = 1
    /\ Len(req[p].sent) = 2

\* C2: a detail or write operation whose request failed rejects with that
\* error.
C2_DetailWriteRejects ==
  \A p \in DOMAIN req :
    (req[p].pc = "done" /\ req[p].op \in DetailAndWriteOps /\ req[p].err # NoErr)
      => req[p].outcome = Rejected(req[p].err)

\* C3: a list read never rejects; when its request failed it resolves with
\* the empty envelope that carries the failure's message, which after a
\* failed refresh is the session error.
C3_ListReadResolves ==
  \A p \in DOMAIN req :
    (req[p].pc = "done" /\ req[p].op \in ListOps)
      => /\ req[p].outcome.kind = "resolved"
         /\ req[p].err # NoErr => req[p].outcome = Resolved(ListEnvelope(req[p].err))
         /\ req[p].err = NoErr => req[p].outcome.value \in {ParsedBody, EmptyValue}
         /\ req[p].refreshErr # NoErr
              => req[p].outcome = Resolved(ListEnvelope(ErrSessionExpired))

\* getMerchandise after a failed refresh.
C3_Witness ==
  \E p \in DOMAIN req :
    /\ req[p].pc = "done"
    /\ req[p].op = "getMerchandise"
    /\ req[p].refreshErr # NoErr
    /\ req[p].outcome = Resolved(ListEnvelope(ErrSessionExpired))

\* The step that ends call p.
Ends(p) == req[p].pc # "done" /\ req'[p].pc = "done"

\* C4: when a call to an endpoint outside the list fallback is answered 401
\* with a token held and the refresh fails, the step that ends the call
\* leaves no token in memory or storage, has dispatched the request once
\* only, and rejects with the session error.
C4_RefreshFailureExpiresSession ==
  [][\A p \in DOMAIN req :
       (/\ Ends(p)
        /\ ~isListEndpoint(req'[p].endpoint)
        /\ Len(req'[p].got) = 1
        /\ req'[p].got[1] = 401
        /\ req'[p].held1
        /\ req'[p].refreshErr # NoErr)
         => /\ StoreEmpty'
            /\ Len(req'[p].sent) = 1
            /\ req'[p].outcome = Rejected(ErrSessionExpired)]_vars

\* uploadFile ended by a refresh that the server refused.
C4_Witness ==
  \E p \in DOMAIN req :
    /\ req[p].pc = "done"
    /\ req[p].op = "uploadFile"
    /\ req[p].refreshNet = 1
    /\ req[p].refreshErr = ServerDetail
    /\ req[p].outcome = Rejected(ErrSessionExpired)
    /\ StoreEmpty

\* C5: uploadFile and deleteFile reject with the error of their failed
\* request, and never resolve with a list envelope.
C5_UploadsReject ==
  \A p \in DOMAIN req :
    (req[p].pc = "done" /\ req[p].op \in UploadOps /\ req[p].err # NoErr)
      => req[p].outcome = Rejected(req[p].err)

\* C6: the access token and the refresh token are both held or both absent.
C6_TokenPair == (accessToken = NULL) <=> (refreshToken = NULL)

\* C7: the step in which refreshAccessToken fails leaves no token in memory
\* or storage, and the failed call has fetched /v1/auth/refresh once at most.
C7_FailedRefreshClears ==
  [][(/\ cli.pc # "done"
      /\ cli'.pc = "done"
      /\ cli'.op = "refresh"
      /\ cli'.outcome.kind = "rejected")
       => (StoreEmpty' /\ ~isAuthenticated(accessToken')
             /\ getAuthHeaders(accessToken').Authorization = Absent
             /\ cli'.refreshNet <= 1)]_vars

\* C8: refreshAccessToken invoked while no refresh token is held throws the
\* no-refresh-token error and does not fetch /v1/auth/refresh.
C8_NoRefreshTokenNoFetch ==
  [][/\ (cli.pc = "idle" /\ cli'.op = "refresh" /\ refreshToken = NULL)
          => (cli'.pc = "done" /\ cli'.refreshNet = 0
                /\ cli'.outcome = Rejected(ErrNoRefreshToken))
     /\ \A p \in DOMAIN req :
          (req'[p].nRefresh = req[p].nRefresh + 1 /\ refreshToken = NULL)
            => (req'[p].refreshNet = 0 /\ req'[p].refreshErr = ErrNoRefreshToken)]_vars

\* A direct refresh thrown back at once, with no fetch.
C8_Witness ==
  /\ cli.pc = "done"
  /\ cli.op = "refresh"
  /\ cli.refreshNet = 0
  /\ cli.outcome = Rejected(ErrNoRefreshToken)

\* C9: the second dispatch of a call carries 'Bearer ' and the access token
\* the refresh returned.
C9_RedispatchCarriesNewToken ==
  \A p \in DOMAIN req :
    Len(req[p].sent) = 2
      => req[p].sent[2].Authorization = Bearer(req[p].refreshed)

\* C10: the step in which a mutation ends resolved leaves no cache entry of
\* its family.
C10_MutationInvalidates ==
  [][\A p \in DOMAIN req :
       (Ends(p) /\ req'[p].op \in MutationOps /\ req'[p].outcome.kind = "resolved")
         => \A k \in cache' : k.family # Family(req'[p].op)]_vars

\* The tokens in memory are the ones storage holds.
Mirror ==
  /\ accessToken = localStorage.access_token
  /\ refreshToken = localStorage.refresh_token

\* C11: in every state the tokens in memory equal the values stored under
\* access_token and refresh_token, and a store constructed over the storage
\* another store left starts with that store's tokens.
C11_PersistenceMirror ==
  Mirror /\ [][Mirror' /\ (Reload => (accessToken' = accessToken
                                        /\ refreshToken' = refreshToken))]_vars

\* A login has stored the server's first pair in memory and in storage.
C11_Witness ==
  /\ cli.pc = "done"
  /\ cli.op = "login"
  /\ cli.outcome.kind = "resolved"
  /\ accessToken = 2
  /\ localStorage = [access_token |-> 2, refresh_token |-> 2]

\* C12: a login answered with a non-success status rejects with the server's
\* detail, or with 'Login failed' when the answer gives none; a login
\* answered with success stores the returned pair in memory and storage and
\* resolves.
C12_LoginOutcome ==
  [][(cli.pc = "login" /\ cli'.pc = "done")
       => LET resp == cli'.resp
          IN  /\ (resp.kind = "http" /\ ~Ok(resp))
                   => cli'.outcome = Rejected(IF resp.body = "detail" THEN ServerDetail
                                              ELSE ErrLoginFailed)
              /\ (Ok(resp) /\ resp.body = "json")
                   => /\ cli'.outcome.kind = "resolved"
                      /\ accessToken' = TokenResponse(issued').access_token
                      /\ refreshToken' = TokenResponse(issued').refresh_token
                      /\ Mirror']_vars

\* The step in which a direct refresh that followed a resolved login resolves.
RefreshAfterLoginResolves ==
  /\ cli.pc = "refresh"
  /\ cli.seq
  /\ cli'.pc = "done"
  /\ cli'.outcome.kind = "resolved"

\* C13, as claimed: after a login and then a refresh that both succeeded,
\* isAuthenticated() was true before the refresh and is true after it, and
\* the stored pair differs from the pair stored before the refresh.
C13_RefreshChangesPair ==
  [][RefreshAfterLoginResolves
       => /\ isAuthenticated(cli.before.access_token)
          /\ isAuthenticated(accessToken')
          /\ Pair(accessToken', refreshToken') # cli.before]_vars

\* C13, amended: after a login and then a refresh that both succeeded,
\* isAuthenticated() was true before the refresh and is true after it, and
\* the pair held in memory and storage is the pair the refresh returned.
C13_RefreshStoresReturnedPair ==
  [][RefreshAfterLoginResolves
       => /\ isAuthenticated(cli.before.access_token)
          /\ isAuthenticated(accessToken')
          /\ Pair(accessToken', refreshToken') = cli'.tokens
          /\ Pair(localStorage'.access_token, localStorage'.refresh_token) = cli'.tokens]_vars

\* A refresh after a login has returned a pair other than the login's.
C13_Witness ==
  /\ cli.pc = "done"
  /\ cli.op = "refresh"
  /\ cli.seq
  /\ cli.outcome.kind = "resolved"
  /\ cli.tokens # cli.before
  /\ Pair(accessToken, refreshToken) = cli.tokens

\* C14: logout() from any state leaves no token in memory and none in
\* storage, and a second logout() leaves the state the first one left.
C14_LogoutIdempotent ==
  [][Logout => /\ StoreEmpty'
               /\ logout(localStorage') = Store(accessToken', refreshToken', localStorage')]_vars

\* logout() has run on a store that held tokens a login or refresh had saved.
C14_Witness ==
  /\ loggedOut
  /\ StoreEmpty
  /\ issued >= 1

\* C15: getAuthHeaders() always has a Content-Type entry; it has an
\* Authorization entry exactly when an access token is held, which is exactly
\* when isAuthenticated() is true, and the entry is 'Bearer ' + the token.
C15_AuthHeaders ==
  LET h == getAuthHeaders(accessToken)
  IN  /\ h.ContentType # Absent
      /\ (h.Authorization # Absent) <=> (accessToken # NULL)
      /\ (accessToken # NULL) <=> isAuthenticated(accessToken)
      /\ (accessToken # NULL) => h.Authorization = Bearer(accessToken)

\* Headers have been built with a token a login or refresh saved, and the
\* caller has since logged out.
C15_Witness ==
  /\ \E p \in DOMAIN req :
       /\ Len(req[p].sent) >= 1
       /\ req[p].sent[1].Authorization = Bearer(2)
  /\ loggedOut
  /\ accessToken = NULL
  /\ getAuthHeaders(accessToken).Authorization = Absent

\* The step in which request, called by p, handles resp as its final
\* response and the operation ends.
HandlesFinal(p, resp) ==
  /\ req[p].pc \in {"fetch1", "fetch2"}
  /\ req'[p].pc = "done"
  /\ req'[p].refreshErr = NoErr
  /\ resp.kind = "http"
  /\ Respond1(p, resp) \/ Respond2(p, resp)

\* C16: response handling.  A final response that is not 2xx, for an
\* endpoint outside the list fallback, makes the call reject with the body's
\* detail when it has one and otherwise a message naming the status; a 204
\* makes it resolve with the empty value; any other 2xx response whose body
\* is JSON makes it resolve with the parsed body.
C16_ResponseHandling ==
  [][\A p \in DOMAIN req, resp \in Responses :
       HandlesFinal(p, resp)
         => LET o == req'[p].outcome
            IN  /\ (~Ok(resp) /\ ~isListEndpoint(req[p].endpoint))
                     => o = Rejected(IF resp.body = "detail" THEN ServerDetail
                                     ELSE HttpErrorMessage(resp.status))
                /\ (resp.status = 204) => o = Resolved(EmptyValue)
                /\ (Ok(resp) /\ resp.status # 204 /\ resp.body = "json")
                     => o = Resolved(ParsedBody)]_vars

\* A delete outside the list fallback has been refused with a status and no
\* detail, after a refresh and a second dispatch.
C16_Witness ==
  \E p \in DOMAIN req :
    /\ req[p].pc = "done"
    /\ ~isListEndpoint(req[p].endpoint)
    /\ req[p].got = <<401, 500>>
    /\ req[p].outcome = Rejected(HttpErrorMessage(500))

\* At most one network call is outstanding for a key.
OneCallPerKey == \A k \in CacheKeys : inflight[k].calls <= 1

\* A read that waits, waits for the one call outstanding for its key.
WaitersShareCall ==
  \A h \in Hooks : hook[h].pc = "waiting" => inflight[hook[h].key].calls = 1

\* The read h starts in this step, for key k.
Reads(h, k) ==
  /\ hook[h].pc = "idle"
  /\ hook'[h].pc # "idle"
  /\ hook'[h].key = k

\* C17: single-flight per key.  At most one network call is outstanding for
\* a key at any time; a read that needs the network while a call for its key
\* is outstanding starts none and waits for that call; the reads waiting
\* for a key all end with the result of its one call.
C17_SingleFlight ==
  /\ OneCallPerKey
  /\ WaitersShareCall
  /\ [][/\ OneCallPerKey'
        /\ WaitersShareCall'
        /\ \A h \in Hooks, k \in CacheKeys :
             (Reads(h, k) /\ inflight[k].calls = 1)
               => (hook'[h].net = 0 /\ inflight' = inflight)
        /\ \A h \in Hooks, g \in Hooks :
             (/\ hook[h].pc = "waiting"
              /\ hook[g].pc = "waiting"
              /\ hook[h].key = hook[g].key
              /\ hook'[h].pc = "done")
               => /\ hook'[g].pc = "done"
                  /\ hook'[g].outcome = hook'[h].outcome
                  /\ hook'[g].result = hook'[h].result
                  /\ inflight'[hook[h].key].calls = 0
                  /\ (hook'[h].outcome = "resolved")
                       => hook'[h].result = fetched'[hook[h].key]]_vars

\* Two reads of one key without an entry have ended with the value of one
\* call: the first started it, the second started none.
C17_Witness ==
  /\ hook["list"].pc = "done"
  /\ hook["picker"].pc = "done"
  /\ hook["list"].key = hook["picker"].key
  /\ hook["list"].served = "fetch"
  /\ hook["picker"].served = "fetch"
  /\ hook["list"].net = 1
  /\ hook["picker"].net = 0
  /\ hook["list"].outcome = "resolved"
  /\ hook["picker"].result = hook["list"].result

\* C18: a read whose key has an entry younger than its TTL ends at once
\* without a network call, with the value of the last successful fetch of
\* the key.
C18_FreshServed ==
  [][\A h \in Hooks, k \in CacheKeys :
       (Reads(h, k) /\ entry[k].value # NULL /\ entry[k].fresh)
         => /\ hook'[h].pc = "done"
            /\ hook'[h].outcome = "resolved"
            /\ hook'[h].net = 0
            /\ inflight' = inflight
            /\ hook'[h].result = fetched[k]]_vars

\* A key has been fetched twice with different values, and a read of its
\* fresh entry has been served the second.
C18_Witness ==
  /\ hook["list"].pc = "done"
  /\ hook["list"].served = "fetch"
  /\ hook["list"].result = 1
  /\ hook["picker"].pc = "done"
  /\ hook["picker"].key = hook["list"].key
  /\ hook["picker"].served = "fresh"
  /\ hook["picker"].result = 2

\* The entry of key k is stale.
Stale(k) == entry[k].value # NULL /\ ~entry[k].fresh

\* C19: stale-while-revalidate.  A read with the option on, of a key whose
\* entry is stale, ends at once with the stale value and leaves one fetch
\* outstanding in the background, started by it when there was none; when
\* that fetch succeeds its value replaces the entry; when it fails no read
\* is rejected and the entry stays as it was.
C19_StaleWhileRevalidate ==
  [][\A k \in CacheKeys :
       /\ \A h \in Hooks :
            (Reads(h, k) /\ Stale(k) /\ staleWhileRevalidate(k))
              => /\ hook'[h].pc = "done"
                 /\ hook'[h].outcome = "resolved"
                 /\ hook'[h].result = entry[k].value
                 /\ entry' = entry
                 /\ inflight'[k] = [calls |-> 1, background |-> TRUE]
                 /\ hook'[h].net = 1 - inflight[k].calls
       /\ \A v \in Values :
            (inflight[k].background /\ FetchOk(k, v))
              => (entry'[k].value = v /\ entry'[k].fresh)
       /\ (inflight[k].background /\ FetchFail(k))
            => /\ Stale(k)
               /\ entry'[k] = entry[k]
               /\ \A h \in Hooks : hook'[h] = hook[h]]_vars

\* A read has been served the stale value and the fetch it started in the
\* background has replaced the entry with another value.
C19_Witness ==
  \E h \in Hooks :
    /\ hook[h].pc = "done"
    /\ hook[h].served = "stale"
    /\ hook[h].net = 1
    /\ hook[h].result = 1
    /\ entry[hook[h].key] = [value |-> 2, fresh |-> TRUE]
    /\ inflight[hook[h].key].calls = 0

\* C20: searchProducts falls back to the list endpoint.  A searchProducts
\* that has ended either saw its request to /v1/products/search succeed, or
\* has issued the second request, to /v1/products/, and ended with it.
C20_SearchFallsBack ==
  \A p \in DOMAIN req :
    (req[p].pc = "done" /\ req[p].op = "searchProducts")
      => \/ req[p].call = 1 /\ req[p].err = NoErr
         \/ req[p].call = 2 /\ req[p].endpoint = FallbackEndpoint

\* What is on screen agrees with the guard of the route.
Guarded ==
  /\ (screen = "children")
       => (route \in ProtectedPaths /\ ~isLoading /\ contextIsAuthenticated(user))
  /\ (route \in ProtectedPaths /\ isLoading) => screen = "loading"
  /\ (~isLoading /\ ~contextIsAuthenticated(user)) => route \notin ProtectedPaths
  /\ (route = LoginPath) <=> (screen = "login")

\* C21: ProtectedRoute guards every protected admin route.  Children are on
\* screen only when the context is not loading and is authenticated; while
\* it is loading a protected route shows the loading screen and the router
\* is not redirected; when it is not loading and not authenticated the
\* router is at /admin.
C21_ProtectedRoute ==
  /\ Guarded
  /\ [][/\ Guarded'
        /\ \A r \in ProtectedPaths :
             Goto(r) => /\ isLoading => (route' = r /\ screen' = "loading")
                        /\ (~isLoading /\ contextIsAuthenticated(user))
                             => (route' = r /\ screen' = "children")
                        /\ (~isLoading /\ ~contextIsAuthenticated(user))
                             => (route' = LoginPath /\ screen' = "login")
        /\ (route \in ProtectedPaths /\ isLoading' /\ route' # route)
             => \E r \in Paths : Goto(r)]_vars

\* After a login the users page is on screen.
C21_Witness ==
  /\ route = "/admin/users"
  /\ screen = "children"
  /\ user = LoginUser
  /\ auth = "ready"

C23_ConcurrentRefresh ==
  \A p \in DOMAIN req, q \in DOMAIN req :
    (/\ p # q
     /\ req[p].pc = "done"
     /\ req[q].pc = "done"
     /\ req[p].refreshNet = 1
     /\ req[q].refreshNet = 1
     /\ req[p].refreshWith = req[q].refreshWith
     /\ req[q].refreshed # NULL)
      => /\ isAuthenticated(accessToken)
         /\ accessToken \in {req[p].refreshed, req[q].refreshed}

\* C24: logout is final until the next login.  Once logout() has returned
\* and while login() has not been called since, no step puts a token back
\* into memory or storage, except the end of a login that was in flight.
C24_LogoutFinal ==
  [][(loggedOut /\ loggedOut' /\ StoreEmpty)
       => \/ StoreEmpty' /\ ~isAuthenticated(accessToken')
          \/ cli.pc = "login" /\ cli'.pc = "done"]_vars

\* C25: the auth context agrees with the credential store.  With no demo
\* entry in storage, a context that is not loading and has a user implies
\* that the store holds an access token; so children of a protected route
\* are on screen only while the store is authenticated.
C25_ContextAgreesWithStore ==
  (demo = "none" /\ ~isLoading /\ contextIsAuthenticated(user))
    => isAuthenticated(accessToken)

====
